---- MODULE Spec2Model ----
(***************************************************************************)
(* Model of the ZoneMinder integration's update coordinator                *)
(* (custom_components/zoneminder/coordinator.py) and of the entity         *)
(* projections that render its published snapshot.                         *)
(*                                                                         *)
(* One coordinator (one configured server) is modelled.  A refresh cycle   *)
(* is ZmDataUpdateCoordinator._fetch_all_data running in an executor       *)
(* thread; it is split at its remote calls, so that a fault can be raised  *)
(* at each call and event-loop work (register_event_queries) can           *)
(* interleave with it.                                                     *)
(*                                                                         *)
(* The write handlers of the entities (switch.py, select.py, camera.py),   *)
(* entry setup and unload (__init__.py) and the set_run_state service      *)
(* (services.py) are one action each; last_op records what the last        *)
(* handler called, logged, raised and requested.                           *)
(*                                                                         *)
(* Python's None is the empty sequence and a present value x is <<x>>, so  *)
(* that the string "None" (MonitorState.NONE, Capturing "None") and a      *)
(* count of 0 stay distinct from an absent value.                          *)
(***************************************************************************)
EXTENDS Integers, Sequences, FiniteSets, TLC

VARIABLES
    zm_monitors,          \* coordinator.zm_monitors: the Monitor objects
    event_queries,        \* coordinator._event_queries
    data,                 \* coordinator.data: the published ZmData, or None
    last_update_success,  \* coordinator.last_update_success
    pc,                   \* position of the cycle in _fetch_all_data
    l_monitors,           \* local data.monitors assembled so far
    event_counts,         \* local event_counts of the running cycle
    it,                   \* set iterator of the pre-fetch loop
    l_run,                \* local data.run_state / available_run_states
    calls,                \* remote calls issued by the current/last cycle
    fault,                \* error raised by a remote call of that cycle
    raised,               \* what left _async_update_data in the last cycle
    prior,                \* last_update_success when that cycle started
    run_state_objs,       \* get_run_states() answer behind the published data
    hass_data,            \* hass.data[DOMAIN]: entry id -> ZmEntryData
    host_map,             \* hass.data[DOMAIN + "_host_map"]: host -> entry id
    services,             \* the services registered under DOMAIN
    config_entries,       \* the config entries: entry id -> data and unique id
    entities,             \* the entities the platforms have added
    last_op               \* the last handler that ran: what it called and did

vars == <<zm_monitors, event_queries, data, last_update_success, pc,
          l_monitors, event_counts, it, l_run, calls, fault, raised, prior,
          run_state_objs, hass_data, host_map, services, config_entries,
          entities, last_op>>

\* the variables of the coordinator and of its running cycle
cvars == <<zm_monitors, event_queries, data, last_update_success, pc,
           l_monitors, event_counts, it, l_run, calls, fault, raised, prior,
           run_state_objs>>

\* the variables of the integration outside the coordinator
svars == <<hass_data, host_map, services, config_entries, entities>>
hvars == <<hass_data, host_map, services, config_entries, entities, last_op>>

-----------------------------------------------------------------------------
(* Bounds of the model *)

MaxMonitors == 2      \* length of the configured monitor list
MaxPairs == 2         \* (time period, include_archived) pairs that get registered
MaxRunStates == 2     \* length of the list get_run_states() returns
MaxEntries == 2       \* config entries (configured servers)

-----------------------------------------------------------------------------
(* Optional values *)

None == <<>>
Some(x) == <<x>>
IsNone(o) == o = <<>>
Val(o) == o[1]

\* bool(x) for an optional boolean: bool(None) is False
PyBool(o) == IF IsNone(o) THEN FALSE ELSE Val(o)

\* str(n) for a non-negative integer
Digits == <<"0", "1", "2", "3", "4", "5", "6", "7", "8", "9">>
RECURSIVE PyStr(_)
PyStr(n) == IF n < 10 THEN Digits[n + 1]
            ELSE PyStr(n \div 10) \o Digits[(n % 10) + 1]

-----------------------------------------------------------------------------
(* Domains *)

\* TimePeriod keys in the order of SENSOR_TYPES
SENSOR_KEYS == <<"all", "hour", "day", "week", "month">>

\* the (TimePeriod, include_archived) pairs that consumers register
RegistrablePairs ==
    << <<SENSOR_KEYS[1], FALSE>>, <<SENSOR_KEYS[2], FALSE>>,
       <<SENSOR_KEYS[1], TRUE>>, <<SENSOR_KEYS[2], TRUE>> >>
Pairs == {RegistrablePairs[i] : i \in 1..MaxPairs}

\* MonitorState values (FUNCTION_OPTIONS) and the ZM 1.37+ field options
FUNCTION_OPTIONS == <<"None", "Monitor", "Modect", "Record", "Mocord", "Nodect">>
CAPTURING_OPTIONS == <<"None", "Ondemand", "Always">>
ANALYSING_OPTIONS == <<"None", "Always">>
RECORDING_OPTIONS == <<"None", "OnMotion", "Always">>

\* errors a remote call can raise; the first three are the ones the cycle
\* names in its except clause
ErrorKinds == {"ZoneminderError", "RequestException", "KeyError"}

\* the remote calls of one cycle
CallNames == {"update_all_monitors", "get_event_counts", "get_run_states",
              "is_available"}

\* run-state names with their code points; Python compares str by code point
RunStateNames == {"Home", "Running", "away"}
CodePoints(name) ==
    CASE name = "Home" -> <<72, 111, 109, 101>>
      [] name = "Running" -> <<82, 117, 110, 110, 105, 110, 103>>
      [] name = "away" -> <<97, 119, 97, 121>>

RECURSIVE SeqLess(_, _)
SeqLess(a, b) ==
    IF Len(a) = 0 THEN Len(b) > 0
    ELSE IF Len(b) = 0 THEN FALSE
    ELSE IF a[1] # b[1] THEN a[1] < b[1]
    ELSE SeqLess(Tail(a), Tail(b))

StrLess(x, y) == SeqLess(CodePoints(x), CodePoints(y))

\* the elements of a list
SeqRange(s) == {s[i] : i \in 1..Len(s)}

\* sequences over S of length at most n
SeqsUpTo(S, n) == UNION {[1..k -> S] : k \in 0..n}

-----------------------------------------------------------------------------
(* Remote server answers: the inputs of a cycle *)

\* Status fields of one Monitor object as update_all_monitors() leaves them.
Reading(f, rec, av, c, a, r) ==
    [function |-> f, is_recording |-> rec, is_available |-> av,
     capturing |-> c, analysing |-> a, recording |-> r]

\* a recording pre-1.37 monitor, and a 1.37+ monitor whose Function column
\* is stale and whose daemon is stopped
CycleReadings ==
    { Reading(Some("Record"), Some(TRUE), TRUE, None, None, None),
      Reading(Some("Monitor"), None, FALSE,
              Some("Always"), Some("Always"), Some("None")) }

\* a 1.37+ monitor with every combination of the three field options and a
\* stale classic function, and monitors that lack all or one of the three
\* fields, with and without a classic function
FieldReadings ==
    {Reading(Some("Modect"), Some(FALSE), TRUE, Some(c), Some(a), Some(r)) :
        c \in {CAPTURING_OPTIONS[i] : i \in 1..Len(CAPTURING_OPTIONS)},
        a \in {ANALYSING_OPTIONS[i] : i \in 1..Len(ANALYSING_OPTIONS)},
        r \in {RECORDING_OPTIONS[i] : i \in 1..Len(RECORDING_OPTIONS)}}
    \cup
    {Reading(f, Some(FALSE), TRUE, t[1], t[2], t[3]) :
        f \in {None, Some("Modect")},
        t \in {<<None, None, None>>,
               <<None, Some("Always"), Some("Always")>>,
               <<Some("Always"), None, Some("Always")>>,
               <<Some("Always"), Some("Always"), None>>}}

\* update_all_monitors() outcomes for n monitors: one bulk response, in
\* which every monitor gets the same reading
StatusAnswers(n, readings) == {[i \in 1..n |-> r] : r \in readings}

MonitorIds(ms) == [i \in 1..Len(ms) |-> ms[i].id]

\* get_event_counts() answers for the monitor list ms: none, the empty
\* mapping, a mapping that reports zero events for the first monitor only, and
\* a mapping from str(monitor id) to a different positive count per monitor
SomeCounts(ms) ==
    {None,
     Some(<<>>),
     Some([k \in {PyStr(ms[i].id) : i \in 1..Len(ms)} \cap {PyStr(1)} |-> 0]),
     Some([k \in {PyStr(ms[i].id) : i \in 1..Len(ms)} |->
              CHOOSE n \in 1..Len(ms) : PyStr(ms[n].id) = k])}

\* get_run_states() answers: lists of run-state objects
RunState(n, act) == [name |-> n, active |-> act]
\* (a server's run states have distinct names)
AllRunStates ==
    {objs \in SeqsUpTo([name : RunStateNames, active : BOOLEAN], MaxRunStates) :
        \A i, j \in 1..Len(objs) : objs[i].name = objs[j].name => i = j}
FewRunStates == {<<>>, <<RunState("Running", TRUE), RunState("Home", FALSE)>>}

\* single answers, for the parts a specification holds fixed
OneReading == {Reading(Some("Modect"), Some(FALSE), TRUE, None, None, None)}
OneRunStates == {<<RunState("Running", TRUE)>>}
OneCounts == {Some(<<>>)}

-----------------------------------------------------------------------------
(* ZmDataUpdateCoordinator._fetch_all_data, computed parts *)

\* dict.get(key, default)
DictGet(d, key, default) == IF key \in DOMAIN d THEN d[key] ELSE default

\* (a lookup without the default: a monitor missing from the mapping gets None)
MonitorEventWithoutDefault(counts, id) ==
    IF ~IsNone(counts) /\ PyStr(id) \in DOMAIN Val(counts)
    THEN Some(Val(counts)[PyStr(id)])
    ELSE None

\* (a fetch that returned none counted as zero events)
MonitorEventZero(counts, id) ==
    IF ~IsNone(counts) THEN Some(DictGet(Val(counts), PyStr(id), 0))
    ELSE Some(0)

\* lines 101-108: the events entry of one monitor for one registered pair
MonitorEvent(counts, id) ==
    IF ~IsNone(counts) THEN Some(DictGet(Val(counts), PyStr(id), 0))
    ELSE None

\* lines 93-109: ZmMonitorData of one monitor
ZmMonitorData(monitor, queries, ecounts) ==
    [function |-> monitor.function,
     is_recording |-> PyBool(monitor.is_recording),
     is_available |-> monitor.is_available,
     capturing |-> monitor.capturing,
     analysing |-> monitor.analysing,
     recording |-> monitor.recording,
     events |-> [q \in queries |->
                    MonitorEvent(DictGet(ecounts, q, None), monitor.id)]]

\* sorted(): insertion sort by code-point order
RECURSIVE Insert(_, _)
Insert(x, s) ==
    IF Len(s) = 0 THEN <<x>>
    ELSE IF StrLess(x, s[1]) THEN <<x>> \o s
    ELSE <<s[1]>> \o Insert(x, Tail(s))

RECURSIVE Sorted(_)
Sorted(s) == IF Len(s) = 0 THEN <<>> ELSE Insert(s[Len(s)], Sorted(SubSeq(s, 1, Len(s) - 1)))

\* (the names in server order)
AvailableRunStatesUnsorted(objs) == [i \in 1..Len(objs) |-> objs[i].name]

\* line 112
AvailableRunStates(objs) == Sorted([i \in 1..Len(objs) |-> objs[i].name])

\* line 113: next((rs.name for rs in run_state_objs if rs.active), None)
RECURSIVE ActiveRunState(_)
ActiveRunState(objs) ==
    IF Len(objs) = 0 THEN None
    ELSE IF objs[1].active THEN Some(objs[1].name)
    ELSE ActiveRunState(Tail(objs))

\* (an except clause that does not name KeyError)
CaughtWithoutKeyError == {"ZoneminderError", "RequestException"}

\* line 117: the exceptions _fetch_all_data converts into UpdateFailed
CaughtErrors == {"ZoneminderError", "RequestException", "KeyError"}

\* what leaves _async_update_data when kind is raised inside the try block
Raised(kind) == IF kind \in CaughtErrors THEN "UpdateFailed" ELSE kind

\* (one status call and one event-count call per monitor)
BulkCallsPerMonitor(ms) ==
    [i \in 1..Len(ms) |->
        [op |-> "update_all_monitors", monitors |-> <<ms[i].id>>, query |-> None]]
EventCountCallsPerMonitor(ms, q) ==
    [i \in 1..Len(ms) |-> [op |-> "get_event_counts", monitors |-> <<>>, query |-> q]]

\* the remote calls a step issues
BulkCalls(ms) ==
    <<[op |-> "update_all_monitors", monitors |-> MonitorIds(ms), query |-> None]>>
EventCountCalls(ms, q) ==
    <<[op |-> "get_event_counts", monitors |-> <<>>, query |-> q]>>
\* (the availability read issued ahead of the run-state fetch)
RunStateCallsAfterAvailability ==
    <<[op |-> "is_available", monitors |-> <<>>, query |-> None],
      [op |-> "get_run_states", monitors |-> <<>>, query |-> None]>>
RunStateCalls == <<[op |-> "get_run_states", monitors |-> <<>>, query |-> None]>>
AvailableCalls == <<[op |-> "is_available", monitors |-> <<>>, query |-> None]>>

\* no handler has run yet
NoOp == [name |-> "none", entry |-> 0, monitor |-> 0, args |-> <<>>,
         calls |-> <<>>, raised |-> "", logged |-> FALSE, refresh |-> FALSE,
         result |-> <<>>]

NoIter == [remaining |-> {}, used |-> 0]
NoRun == [objs |-> <<>>, run_state |-> None, available_run_states |-> <<>>]

-----------------------------------------------------------------------------
(* State after construction *)

\* a Monitor object of the configured list
Monitor(id, r) ==
    [id |-> id, function |-> r.function, is_recording |-> r.is_recording,
     is_available |-> r.is_available, capturing |-> r.capturing,
     analysing |-> r.analysing, recording |-> r.recording]

\* config entries
EntryIds == 1..MaxEntries

\* conf[CONF_HOST] of the entries of the test suite
HostNames == <<"zm.example.com", "zm2.example.com", "zm3.example.com",
               "zm4.example.com">>

\* a config entry: its data (the host), its unique id and its source
ConfigEntry(host, unique_id, source) ==
    [host |-> host, unique_id |-> unique_id, source |-> source]

\* one entry per server, each created for a host of its own
ConfiguredEntries ==
    [e \in EntryIds |-> ConfigEntry(HostNames[e], HostNames[e], "user")]

\* no entry is set up yet
NothingLoaded ==
    /\ hass_data = <<>>
    /\ host_map = <<>>
    /\ services = {}
    /\ entities = {}
    /\ last_op = NoOp

\* ZmDataUpdateCoordinator.__init__: the monitor list is the one get_monitors()
\* returned at setup (possibly empty), nothing is registered, nothing is
\* published; the base class starts with last_update_success = True.
InitCoordinator(readings) ==
    /\ \E n \in 0..MaxMonitors : \E r \in readings :
          zm_monitors = [i \in 1..n |-> Monitor(i, r)]
    /\ event_queries = {}
    /\ data = None
    /\ last_update_success = TRUE
    /\ pc = "idle"
    /\ l_monitors = <<>>
    /\ event_counts = <<>>
    /\ it = NoIter
    /\ l_run = NoRun
    /\ calls = <<>>
    /\ fault = None
    /\ raised = "none"
    /\ prior = TRUE
    /\ run_state_objs = <<>>

InitWith(readings) ==
    /\ InitCoordinator(readings)
    /\ config_entries = ConfiguredEntries
    /\ NothingLoaded

Init == InitWith(CycleReadings)

-----------------------------------------------------------------------------
(* The refresh cycle *)

ResetLocals ==
    /\ l_monitors' = <<>>
    /\ event_counts' = <<>>
    /\ it' = NoIter
    /\ l_run' = NoRun

\* (a cycle that assembles into the published object: what was assembled
\* before the exception stays published)
FailPublishingPartial(call, issued, kind) ==
    /\ pc' = "idle"
    /\ calls' = calls \o issued
    /\ fault' = Some([call |-> call, kind |-> kind])
    /\ raised' = Raised(kind)
    /\ last_update_success' = FALSE
    /\ data' = Some([monitors |-> l_monitors,
                     run_state |-> l_run.run_state,
                     available_run_states |-> l_run.available_run_states,
                     server_available |-> FALSE])
    /\ ResetLocals
    /\ UNCHANGED <<zm_monitors, event_queries, prior, run_state_objs>>
    /\ UNCHANGED hvars

\* The cycle ends with an exception: a remote call of the cycle (issued, the
\* calls it made) raised kind, or the interpreter did.  The try block's local
\* data is dropped; _async_update_data raises Raised(kind), and the base
\* class records the failed refresh and keeps the published data.
Fail(call, issued, kind) ==
    /\ pc' = "idle"
    /\ calls' = calls \o issued
    /\ fault' = Some([call |-> call, kind |-> kind])
    /\ raised' = Raised(kind)
    /\ last_update_success' = FALSE
    /\ data' = data
    /\ ResetLocals
    /\ UNCHANGED <<zm_monitors, event_queries, prior, run_state_objs>>
    /\ UNCHANGED hvars

\* (a failure flag that a later success does not clear)
PublishKeepingFlag(d) ==
    /\ data' = Some(d)
    /\ last_update_success' = last_update_success
    /\ raised' = "ok"

\* The cycle returns d: the base class publishes it as a whole and records
\* the successful refresh.
Publish(d) ==
    /\ data' = Some(d)
    /\ last_update_success' = TRUE
    /\ raised' = "ok"

\* line 75: a timer tick or a refresh request starts _fetch_all_data in the
\* executor; line 81: data = ZmData()
StartCycle ==
    /\ pc = "idle"
    /\ pc' = "update_all_monitors"
    /\ calls' = <<>>
    /\ fault' = None
    /\ raised' = "none"
    /\ prior' = last_update_success
    /\ ResetLocals
    /\ UNCHANGED <<zm_monitors, event_queries, data, last_update_success,
                   run_state_objs>>
    /\ UNCHANGED hvars

\* line 83: update_all_monitors(self.zm_monitors) refreshes the status fields
\* of every Monitor object in place; line 87 then creates the iterator of the
\* registration set.
UpdateAllMonitors(readings) ==
    /\ pc = "update_all_monitors"
    /\ \/ /\ \E f \in StatusAnswers(Len(zm_monitors), readings) :
                zm_monitors' = [i \in 1..Len(zm_monitors) |->
                                   Monitor(zm_monitors[i].id, f[i])]
          /\ calls' = calls \o BulkCalls(zm_monitors)
          /\ it' = [remaining |-> event_queries, used |-> Cardinality(event_queries)]
          /\ pc' = "get_event_counts"
          /\ UNCHANGED <<event_queries, data, last_update_success, l_monitors,
                         event_counts, l_run, fault, raised, prior,
                         run_state_objs>>
          /\ UNCHANGED hvars
       \/ \E kind \in ErrorKinds :
             Fail("update_all_monitors", BulkCalls(zm_monitors), kind)

\* lines 87-90: one step of the pre-fetch loop.  The set iterator raises
\* RuntimeError when the set changed size since the iterator was created;
\* otherwise it yields a pair not yet visited and get_event_counts is called
\* for it, or the loop ends when no pair is left.
GetEventCounts(answers) ==
    /\ pc = "get_event_counts"
    /\ Cardinality(event_queries) = it.used
    /\ \E q \in it.remaining :
          \/ /\ \E counts \in answers :
                   event_counts' = (q :> counts) @@ event_counts
             /\ calls' = calls \o EventCountCalls(zm_monitors, q)
             /\ it' = [it EXCEPT !.remaining = @ \ {q}]
             /\ UNCHANGED <<zm_monitors, event_queries, data, last_update_success,
                            pc, l_monitors, l_run, fault, raised, prior,
                            run_state_objs>>
             /\ UNCHANGED hvars
          \/ \E kind \in ErrorKinds :
                Fail("get_event_counts", EventCountCalls(zm_monitors, q), kind)

EventCountsDone ==
    /\ pc = "get_event_counts"
    /\ Cardinality(event_queries) = it.used
    /\ it.remaining = {}
    /\ pc' = "assemble"
    /\ UNCHANGED <<zm_monitors, event_queries, data, last_update_success,
                   l_monitors, event_counts, it, l_run, calls, fault, raised,
                   prior, run_state_objs>>
    /\ UNCHANGED hvars

SetChangedSize ==
    /\ pc = "get_event_counts"
    /\ Cardinality(event_queries) # it.used
    /\ Fail("iterate", <<>>, "RuntimeError")

\* lines 92-109: the next monitor of the list is copied into the local data,
\* with one events entry per pair registered at this moment.
AssembleMonitor ==
    /\ pc = "assemble"
    /\ Len(l_monitors) < Len(zm_monitors)
    /\ LET monitor == zm_monitors[Len(l_monitors) + 1]
       IN l_monitors' = (monitor.id :> ZmMonitorData(monitor, event_queries, event_counts))
                        @@ l_monitors
    /\ UNCHANGED <<zm_monitors, event_queries, data, last_update_success, pc,
                   event_counts, it, l_run, calls, fault, raised, prior,
                   run_state_objs>>
    /\ UNCHANGED hvars

\* lines 111-113: get_run_states() and the two fields derived from it
GetRunStates(answers) ==
    /\ pc = "assemble"
    /\ Len(l_monitors) = Len(zm_monitors)
    /\ \/ /\ \E objs \in answers :
                l_run' = [objs |-> objs,
                          run_state |-> ActiveRunState(objs),
                          available_run_states |-> AvailableRunStates(objs)]
          /\ calls' = calls \o RunStateCalls
          /\ pc' = "is_available"
          /\ UNCHANGED <<zm_monitors, event_queries, data, last_update_success,
                         l_monitors, event_counts, it, fault, raised, prior,
                         run_state_objs>>
          /\ UNCHANGED hvars
       \/ \E kind \in ErrorKinds : Fail("get_run_states", RunStateCalls, kind)

\* lines 114-116: the is_available read, then the complete data is returned
\* and published.
ReadIsAvailable(answers) ==
    /\ pc = "is_available"
    /\ \/ /\ \E b \in answers :
                Publish([monitors |-> l_monitors,
                         run_state |-> l_run.run_state,
                         available_run_states |-> l_run.available_run_states,
                         server_available |-> b])
          /\ run_state_objs' = l_run.objs
          /\ calls' = calls \o AvailableCalls
          /\ pc' = "idle"
          /\ fault' = None
          /\ ResetLocals
          /\ UNCHANGED <<zm_monitors, event_queries, prior>>
          /\ UNCHANGED hvars
       \/ \E kind \in ErrorKinds : Fail("is_available", AvailableCalls, kind)

\* (an assignment in place of the in-place union)
RegisteredReplacing(registered, queries) == queries

\* line 71: the registration set after self._event_queries |= queries
Registered(registered, queries) == registered \cup queries

\* lines 69-71: register_event_queries(queries), from the event loop
RegisterEventQueries(pairs) ==
    \E queries \in SUBSET pairs :
        /\ event_queries' = Registered(event_queries, queries)
        /\ UNCHANGED <<zm_monitors, data, last_update_success, pc, l_monitors,
                       event_counts, it, l_run, calls, fault, raised, prior,
                       run_state_objs>>
        /\ UNCHANGED hvars

Next ==
    \/ StartCycle
    \/ UpdateAllMonitors(CycleReadings)
    \/ GetEventCounts(OneCounts)
    \/ EventCountsDone
    \/ SetChangedSize
    \/ AssembleMonitor
    \/ GetRunStates(FewRunStates)
    \/ ReadIsAvailable({TRUE})
    \/ RegisterEventQueries(Pairs)

Spec == Init /\ [][Next]_vars

-----------------------------------------------------------------------------
(* The same coordinator with more get_event_counts() answers, and with every *)
(* get_run_states() answer, the other answers being held to one sample.      *)


InitEvents == InitWith(OneReading)

NextEvents ==
    \/ StartCycle
    \/ UpdateAllMonitors(OneReading)
    \/ GetEventCounts(SomeCounts(zm_monitors))
    \/ EventCountsDone
    \/ SetChangedSize
    \/ AssembleMonitor
    \/ GetRunStates(OneRunStates)
    \/ ReadIsAvailable({TRUE})
    \/ RegisterEventQueries({RegistrablePairs[1], RegistrablePairs[2]})

SpecEvents == InitEvents /\ [][NextEvents]_vars

InitRunStates == InitWith(OneReading)

NextRunStates ==
    \/ StartCycle
    \/ UpdateAllMonitors(OneReading)
    \/ GetEventCounts(OneCounts)
    \/ EventCountsDone
    \/ SetChangedSize
    \/ AssembleMonitor
    \/ GetRunStates(AllRunStates)
    \/ ReadIsAvailable(BOOLEAN)
    \/ RegisterEventQueries({RegistrablePairs[1]})

SpecRunStates == InitRunStates /\ [][NextRunStates]_vars

\* One monitor whose status fields take every combination of FieldReadings.
InitFields == InitWith(FieldReadings) /\ Len(zm_monitors) = 1

NextFields ==
    \/ StartCycle
    \/ UpdateAllMonitors(FieldReadings)
    \/ GetEventCounts(OneCounts)
    \/ EventCountsDone
    \/ SetChangedSize
    \/ AssembleMonitor
    \/ GetRunStates(OneRunStates)
    \/ ReadIsAvailable({TRUE})
    \/ RegisterEventQueries({RegistrablePairs[1]})

SpecFields == InitFields /\ [][NextFields]_vars

-----------------------------------------------------------------------------
(* Entity projections *)

\* (a derivation that takes on-demand capturing for capturing)
DeriveFunctionOndemandAsAlways(c, a, r) ==
    LET cc == IF c = "Ondemand" THEN "Always" ELSE c
    IN CASE <<cc, a, r>> = <<"None", "None", "None">> -> Some("None")
         [] <<cc, a, r>> = <<"Always", "None", "None">> -> Some("Monitor")
         [] <<cc, a, r>> = <<"Always", "Always", "OnMotion">> -> Some("Modect")
         [] <<cc, a, r>> = <<"Always", "None", "Always">> -> Some("Record")
         [] <<cc, a, r>> = <<"Always", "Always", "Always">> -> Some("Mocord")
         [] <<cc, a, r>> = <<"Always", "None", "OnMotion">> -> Some("Nodect")
         [] OTHER -> None

\* _derive_function: the classic function of a (capturing, analysing,
\* recording) triple, or None when the triple has no classic equivalent.
DeriveFunction(c, a, r) ==
    CASE <<c, a, r>> = <<"None", "None", "None">> -> Some("None")
      [] <<c, a, r>> = <<"Always", "None", "None">> -> Some("Monitor")
      [] <<c, a, r>> = <<"Always", "Always", "OnMotion">> -> Some("Modect")
      [] <<c, a, r>> = <<"Always", "None", "Always">> -> Some("Record")
      [] <<c, a, r>> = <<"Always", "Always", "Always">> -> Some("Mocord")
      [] <<c, a, r>> = <<"Always", "None", "OnMotion">> -> Some("Nodect")
      [] OTHER -> None

\* data.monitors.get(monitor.id) of the published data, or None
MonitorData(monitor_id) ==
    IF ~IsNone(data) /\ monitor_id \in DOMAIN Val(data).monitors
    THEN Some(Val(data).monitors[monitor_id])
    ELSE None

\* ZMSensorMonitors.native_value: the state of the monitor status sensor
StatusNativeValue(monitor_id) ==
    LET md == MonitorData(monitor_id)
    IN IF ~IsNone(md) /\ ~IsNone(Val(md).function)
       THEN Val(md).function
       ELSE None

\* (an availability that looks at the snapshot only)
RunStateAvailableIgnoringFlag ==
    IF ~IsNone(data) THEN Val(data).server_available ELSE FALSE

\* ZMSensorRunState.available and ZMSelectRunState.available
RunStateAvailable ==
    IF ~last_update_success THEN FALSE
    ELSE IF ~IsNone(data) THEN Val(data).server_available
    ELSE FALSE

\* ZMSensorMonitors.available
StatusAvailable(monitor_id) ==
    IF ~last_update_success THEN FALSE
    ELSE IF ~IsNone(MonitorData(monitor_id))
    THEN Val(MonitorData(monitor_id)).is_available
    ELSE FALSE

\* ZoneMinderCamera.available
CameraAvailable(monitor_id) ==
    IF ~last_update_success THEN FALSE
    ELSE IF ~IsNone(MonitorData(monitor_id))
    THEN Val(MonitorData(monitor_id)).is_available
    ELSE FALSE

\* The entities that do not define available inherit CoordinatorEntity's:
\* event sensors, switches, monitor selects and the availability binary sensor
\* are available when the last refresh succeeded.
InheritedAvailable == last_update_success

\* the entities of the coordinator that are rendered available, as
\* <<kind, monitor id>> (0 for the server-level entities)
AvailableEntities ==
    {e \in {<<"run_state_sensor", 0>>, <<"run_state_select", 0>>} : RunStateAvailable}
    \cup {e \in {<<"binary_sensor", 0>>} : InheritedAvailable}
    \cup {<<"status_sensor", zm_monitors[i].id>> : i \in
             {j \in 1..Len(zm_monitors) : StatusAvailable(zm_monitors[j].id)}}
    \cup {<<"camera", zm_monitors[i].id>> : i \in
             {j \in 1..Len(zm_monitors) : CameraAvailable(zm_monitors[j].id)}}
    \cup {<<k, zm_monitors[i].id>> :
             k \in {"event_sensor", "switch", "force_alarm", "select"},
             i \in {j \in 1..Len(zm_monitors) : InheritedAvailable}}

\* (a select that shows the classic function field whenever it is set)
FunctionCurrentOptionTrustingFunction(monitor_id) ==
    LET md == MonitorData(monitor_id)
    IN IF IsNone(md) THEN None
       ELSE IF ~IsNone(Val(md).function) THEN Val(md).function
       ELSE IF /\ ~IsNone(Val(md).capturing)
               /\ ~IsNone(Val(md).analysing)
               /\ ~IsNone(Val(md).recording)
       THEN LET derived == DeriveFunction(Val(Val(md).capturing),
                                          Val(Val(md).analysing),
                                          Val(Val(md).recording))
            IN IF ~IsNone(derived) THEN derived ELSE Some("Custom")
       ELSE None

\* ZMSelectFunction.current_option
FunctionCurrentOption(monitor_id) ==
    LET md == MonitorData(monitor_id)
    IN IF IsNone(md) THEN None
       ELSE IF /\ ~IsNone(Val(md).capturing)
               /\ ~IsNone(Val(md).analysing)
               /\ ~IsNone(Val(md).recording)
       THEN LET derived == DeriveFunction(Val(Val(md).capturing),
                                          Val(Val(md).analysing),
                                          Val(Val(md).recording))
            IN IF ~IsNone(derived) THEN derived ELSE Some("Custom")
       ELSE IF ~IsNone(Val(md).function) THEN Val(md).function
       ELSE None

\* ZMSelectFunction.options
FunctionOptions(monitor_id) ==
    IF FunctionCurrentOption(monitor_id) = Some("Custom")
    THEN FUNCTION_OPTIONS \o <<"Custom">>
    ELSE FUNCTION_OPTIONS

-----------------------------------------------------------------------------
(* Write operations of the coordinator's entities *)

\* One call on the remote client, or on a Monitor object (whose setters call
\* the client), with what it answered: "ok", "false" or the error it raised.
\* entry is the config entry of the client, 0 for this coordinator's client.
ClientCall(entry, method, monitor, arg, preset, result) ==
    [entry |-> entry, method |-> method, monitor |-> monitor, arg |-> arg,
     preset |-> preset, result |-> result]

\* answers of a setter, and of a call that returns a success flag
SetterResults == {"ok"} \cup ErrorKinds
BoolResults == {"ok", "false"} \cup ErrorKinds

\* const.py: the states of the function switch
DEFAULT_COMMAND_ON == "Modect"
DEFAULT_COMMAND_OFF == "Monitor"

\* camera.py: two of PTZ_DIRECTIONS, and presets of the range 0..99
PTZ_DIRECTIONS == {"right", "up_left"}
PtzPresets == {0, 1, 99}

\* (an except clause that does not name RequestException)
SetFunctionCaughtWithoutTimeout == {"ZoneminderError", "KeyError"}

\* the except clauses around the writes
SetFunctionCaught == {"ZoneminderError", "RequestException", "KeyError"}
SetForceAlarmCaught == {"ZoneminderError", "RequestException"}
PtzCaught == {"ZoneminderError"}

\* (a run-state select that logs the error instead of raising it)
SetActiveStateCaughtBySelectAll == {"ZoneminderError", "RequestException", "KeyError"}

\* ZMSelectRunState.async_select_option has no try block
SetActiveStateCaughtBySelect == {}

\* the config entry of the coordinator modelled above
CoordinatorEntry == 1

\* the monitors for which that entry has an entity of a kind (0: the server)
EntityMonitors(domain, kind) ==
    {x.monitor : x \in {y \in entities : /\ y.entry = CoordinatorEntry
                                         /\ y.domain = domain
                                         /\ y.kind = kind}}

MonitorIdSet == {zm_monitors[i].id : i \in 1..Len(zm_monitors)}

\* (a handler that records a failed write as a failed refresh)
HandledFailingRefresh(name, entry, monitor, cs, exc, logged, refresh) ==
    /\ last_op' = [name |-> name, entry |-> entry, monitor |-> monitor,
                   args |-> <<>>, calls |-> cs, raised |-> exc,
                   logged |-> logged, refresh |-> refresh, result |-> <<>>]
    /\ last_update_success' = (last_update_success /\ exc = "" /\ ~logged)
    /\ UNCHANGED <<zm_monitors, event_queries, data, pc, l_monitors,
                   event_counts, it, l_run, calls, fault, raised, prior,
                   run_state_objs>>

\* a handler ran to its end or to the exception that left it; no handler
\* assigns to the coordinator
Handled(name, entry, monitor, cs, exc, logged, refresh) ==
    /\ last_op' = [name |-> name, entry |-> entry, monitor |-> monitor,
                   args |-> <<>>, calls |-> cs, raised |-> exc,
                   logged |-> logged, refresh |-> refresh, result |-> <<>>]
    /\ UNCHANGED cvars

\* await async_add_executor_job(write), the write inside try/except caught;
\* then await coordinator.async_request_refresh().  An error the except
\* clause names is logged; any other leaves the handler before the refresh
\* request.
GuardedWrite(name, monitor, call, caught) ==
    LET err == call.result \in ErrorKinds
        escapes == err /\ call.result \notin caught
    IN /\ Handled(name, 0, monitor, <<call>>,
                  IF escapes THEN call.result ELSE "", err /\ ~escapes, ~escapes)
       /\ UNCHANGED svars

\* ZMSwitchMonitors.is_on
SwitchIsOn(monitor_id) ==
    LET md == MonitorData(monitor_id)
    IN IF IsNone(md) THEN None
       ELSE Some(Val(md).function = Some(DEFAULT_COMMAND_ON))

\* ZMSwitchForceAlarm.is_on
ForceAlarmIsOn(monitor_id) ==
    LET md == MonitorData(monitor_id)
    IN IF IsNone(md) THEN None
       ELSE Some(Val(md).is_recording)

\* ZMSelectCapturing.current_option
CapturingCurrentOption(monitor_id) ==
    LET md == MonitorData(monitor_id)
    IN IF IsNone(md) THEN None ELSE Val(md).capturing

\* ZMSwitchMonitors.async_turn_on / async_turn_off
SwitchTurnOn ==
    /\ \E m \in EntityMonitors("switch", "function"), res \in SetterResults :
          GuardedWrite("switch_turn_on", m,
                       ClientCall(0, "set_function", m, DEFAULT_COMMAND_ON, 0, res),
                       SetFunctionCaught)

SwitchTurnOff ==
    /\ \E m \in EntityMonitors("switch", "function"), res \in SetterResults :
          GuardedWrite("switch_turn_off", m,
                       ClientCall(0, "set_function", m, DEFAULT_COMMAND_OFF, 0, res),
                       SetFunctionCaught)

\* ZMSwitchForceAlarm.async_turn_on / async_turn_off
ForceAlarmTurnOn ==
    /\ \E m \in EntityMonitors("switch", "force_alarm"), res \in SetterResults :
          GuardedWrite("force_alarm_turn_on", m,
                       ClientCall(0, "set_force_alarm_state", m, "True", 0, res),
                       SetForceAlarmCaught)

ForceAlarmTurnOff ==
    /\ \E m \in EntityMonitors("switch", "force_alarm"), res \in SetterResults :
          GuardedWrite("force_alarm_turn_off", m,
                       ClientCall(0, "set_force_alarm_state", m, "False", 0, res),
                       SetForceAlarmCaught)

\* ZMSelectFunction.async_select_option: "Custom" is display-only
SelectFunction ==
    /\ \E m \in EntityMonitors("select", "function") :
          \E option \in SeqRange(FunctionOptions(m)), res \in SetterResults :
             IF option = "Custom"
             THEN /\ Handled("select_function", 0, m, <<>>, "", FALSE, FALSE)
                  /\ UNCHANGED svars
             ELSE GuardedWrite("select_function", m,
                               ClientCall(0, "set_function", m, option, 0, res),
                               SetFunctionCaught)

\* ZMSelectCapturing / ZMSelectAnalysing / ZMSelectRecording
\* .async_select_option
SelectCapturing ==
    /\ \E m \in EntityMonitors("select", "capturing") :
          \E option \in SeqRange(CAPTURING_OPTIONS), res \in SetterResults :
             GuardedWrite("select_capturing", m,
                          ClientCall(0, "set_capturing", m, option, 0, res),
                          SetFunctionCaught)

SelectAnalysing ==
    /\ \E m \in EntityMonitors("select", "analysing") :
          \E option \in SeqRange(ANALYSING_OPTIONS), res \in SetterResults :
             GuardedWrite("select_analysing", m,
                          ClientCall(0, "set_analysing", m, option, 0, res),
                          SetFunctionCaught)

SelectRecording ==
    /\ \E m \in EntityMonitors("select", "recording") :
          \E option \in SeqRange(RECORDING_OPTIONS), res \in SetterResults :
             GuardedWrite("select_recording", m,
                          ClientCall(0, "set_recording", m, option, 0, res),
                          SetFunctionCaught)

\* ZMSelectRunState.async_select_option: the flag set_active_state returns is
\* not looked at
SelectRunState ==
    /\ EntityMonitors("select", "run_state") # {}
    /\ \E option \in SeqRange(Val(data).available_run_states),
          res \in BoolResults :
          GuardedWrite("select_run_state", 0,
                       ClientCall(0, "set_active_state", 0, option, 0, res),
                       SetActiveStateCaughtBySelect)

\* (a PTZ command that does not look at the returned flag)
PtzRaisedIgnoringFalse(result) ==
    IF result \in PtzCaught THEN "HomeAssistantError"
    ELSE IF result \in ErrorKinds THEN result
    ELSE ""

\* what leaves a PTZ handler: HomeAssistantError for a ZoneminderError and for
\* a false result, any other error as it is
PtzRaised(result) ==
    IF result \in PtzCaught THEN "HomeAssistantError"
    ELSE IF result \in ErrorKinds THEN result
    ELSE IF result = "false" THEN "HomeAssistantError"
    ELSE ""

\* the client method of a preset: 0 is home
PtzPresetMethod(preset) == IF preset = 0 THEN "goto_home" ELSE "goto_preset"

\* ZoneMinderCamera.async_perform_ptz
PerformPtz ==
    /\ \E m \in EntityMonitors("camera", "camera"), direction \in PTZ_DIRECTIONS, res \in BoolResults :
          /\ Handled("ptz", 0, m,
                     <<ClientCall(0, "move_monitor", m, direction, 0, res)>>,
                     PtzRaised(res), FALSE, FALSE)
          /\ UNCHANGED svars

\* ZoneMinderCamera.async_perform_ptz_preset
PerformPtzPreset ==
    /\ \E m \in EntityMonitors("camera", "camera"), preset \in PtzPresets, res \in BoolResults :
          /\ Handled("ptz_preset", 0, m,
                     <<ClientCall(0, PtzPresetMethod(preset), m, "", preset, res)>>,
                     PtzRaised(res), FALSE, FALSE)
          /\ UNCHANGED svars

-----------------------------------------------------------------------------
(* Entry setup, unload and the set_run_state service *)

\* The coordinator modelled above belongs to one entry and starts at its
\* construction.  The entries below each have a client and a coordinator of
\* their own; of that coordinator only the outcome of the first refresh
\* enters here.

\* conf[CONF_HOST] of an entry
EntryHost(e) == config_entries[e].host

SERVICE_SET_RUN_STATE == "set_run_state"

\* dict.pop(key, None) on a mapping
DictPop(d, key) == [k \in DOMAIN d \ {key} |-> d[k]]

\* (an except clause around login that names the transport error only)
LoginCaughtTransportOnly == {"RequestException"}

\* __init__.py line 92: the errors of login that mean "not ready"
LoginCaught == {"RequestException", "LoginError", "ZoneminderError"}

\* what login can answer
LoginResults == {"ok", "false", "LoginError"} \cup ErrorKinds

\* (an except clause that lets the KeyError of a malformed answer through)
GetMonitorsCaughtWithoutKeyError == {"ZoneminderError", "RequestException"}

\* line 100: the errors of get_monitors that mean "no monitors"
GetMonitorsCaught == {"ZoneminderError", "RequestException", "KeyError"}

\* (an except clause that does not name RequestException)
SetActiveStateCaughtWithoutTimeout == {"ZoneminderError", "KeyError"}

\* services.py line 39
SetActiveStateCaught == {"ZoneminderError", "RequestException", "KeyError"}

\* a handler of the integration ran; the coordinator above is not involved
HassHandled(name, entry, args, cs, exc, logged) ==
    /\ last_op' = [name |-> name, entry |-> entry, monitor |-> 0,
                   args |-> args, calls |-> cs, raised |-> exc,
                   logged |-> logged, refresh |-> FALSE, result |-> <<>>]
    /\ UNCHANGED cvars

\* the versions of the servers of the test suite, as (major, minor, patch)
ZmVersions == {<<1, 36, 33>>, <<1, 38, 0>>}

\* _is_zm_137_or_later(zm_version)
IsZm137OrLater(version) ==
    version[1] > 1 \/ (version[1] = 1 /\ version[2] >= 37)

\* entry.options as the sensor platform reads them
Options(monitored_conditions, include_archived) ==
    [monitored_conditions |-> monitored_conditions,
     include_archived |-> include_archived]

\* const.py: DEFAULT_MONITORED_CONDITIONS and DEFAULT_INCLUDE_ARCHIVED, the
\* options every flow creates an entry with
DefaultOptions == Options({"all"}, FALSE)

\* ZmEntryData; zm_version is the client's
ZmEntryData(client, monitors, host_name, zm_version) ==
    [client |-> client, monitors |-> monitors, host_name |-> host_name,
     zm_version |-> zm_version]

\* an entity of entry e that a platform adds; monitor 0 is the server, and
\* key is the (time period, include_archived) pair of an event sensor
Entity(e, domain, kind, monitor, key) ==
    [entry |-> e, domain |-> domain, kind |-> kind, monitor |-> monitor,
     key |-> key]

\* sensor.py lines 90-93: the pairs the sensor platform registers
SensorQueries(options) ==
    {<<key, options.include_archived>> : key \in options.monitored_conditions}

\* sensor.py lines 95-105
SensorEntities(e, monitors, options) ==
    {Entity(e, "sensor", "status", m, <<>>) : m \in SeqRange(monitors)}
    \cup {Entity(e, "sensor", "events", m, <<key, options.include_archived>>) :
             m \in SeqRange(monitors),
             key \in SeqRange(SENSOR_KEYS) \cap options.monitored_conditions}
    \cup {Entity(e, "sensor", "run_state", 0, <<>>)}

\* select.py lines 40-51
SelectEntities(e, monitors, version) ==
    {Entity(e, "select", "run_state", 0, <<>>)}
    \cup {Entity(e, "select", "function", m, <<>>) : m \in SeqRange(monitors)}
    \cup (IF IsZm137OrLater(version)
          THEN {Entity(e, "select", kind, m, <<>>) :
                   kind \in {"capturing", "analysing", "recording"},
                   m \in SeqRange(monitors)}
          ELSE {})

\* switch.py lines 56-75
SwitchEntities(e, monitors, version) ==
    {Entity(e, "switch", "force_alarm", m, <<>>) : m \in SeqRange(monitors)}
    \cup (IF ~IsZm137OrLater(version)
          THEN {Entity(e, "switch", "function", m, <<>>) : m \in SeqRange(monitors)}
          ELSE {})

\* camera.py lines 63-74
CameraEntities(e, monitors) ==
    {Entity(e, "camera", "camera", m, <<>>) : m \in SeqRange(monitors)}

\* binary_sensor.py defines async_setup_platform only: the platform has no
\* entry setup and adds nothing for a config entry
BinarySensorEntities(e) == {}

\* line 121: async_forward_entry_setups(entry, PLATFORMS)
PlatformEntities(e, monitors, version, options) ==
    BinarySensorEntities(e)
    \cup CameraEntities(e, monitors)
    \cup SelectEntities(e, monitors, version)
    \cup SensorEntities(e, monitors, options)
    \cup SwitchEntities(e, monitors, version)

\* lines 107-121: what a setup that got this far leaves in hass.data
Loaded(e, monitors, version, options) ==
    LET host_name == EntryHost(e)
    IN /\ hass_data' = (e :> ZmEntryData(e, monitors, host_name, version))
                          @@ hass_data
       /\ host_map' = (host_name :> e) @@ host_map
       /\ services' = services \cup {SERVICE_SET_RUN_STATE}
       /\ entities' = entities \cup PlatformEntities(e, monitors, version, options)
       /\ UNCHANGED config_entries

\* async_setup_entry, lines 74-136, for an entry that is not loaded; sizes are
\* the lengths of the monitor list get_monitors can return
SetupDone(e, cs, exc, logged) == HassHandled("setup_entry", e, <<>>, cs, exc, logged)

SetupEntry(sizes, versions) ==
    \E e \in DOMAIN config_entries \ DOMAIN hass_data :
    \E login \in LoginResults, mons \in SetterResults, first \in {"ok", "failed"},
       n \in sizes, version \in versions :
        LET c_login == ClientCall(e, "login", 0, "", 0, login)
            c_mons == ClientCall(e, "get_monitors", 0, "", 0, mons)
            c_first == ClientCall(e, "first_refresh", 0, "", 0, first)
            c_fwd == ClientCall(e, "forward_entry_setups", 0, "", 0, "ok")
            monitors == IF mons = "ok" THEN [i \in 1..n |-> i] ELSE <<>>
        IN IF login \in LoginCaught \/ login = "false"
           THEN /\ SetupDone(e, <<c_login>>, "ConfigEntryNotReady", FALSE)
                /\ UNCHANGED svars
           ELSE IF login # "ok"
           THEN /\ SetupDone(e, <<c_login>>, login, FALSE)
                /\ UNCHANGED svars
           ELSE IF mons # "ok" /\ mons \notin GetMonitorsCaught
           THEN /\ SetupDone(e, <<c_login, c_mons>>, mons, FALSE)
                /\ UNCHANGED svars
           ELSE IF first # "ok"
           THEN /\ SetupDone(e, <<c_login, c_mons, c_first>>,
                             "ConfigEntryNotReady", mons # "ok")
                /\ UNCHANGED svars
           ELSE /\ SetupDone(e, <<c_login, c_mons, c_first, c_fwd>>, "",
                             mons # "ok")
                /\ Loaded(e, monitors, version, DefaultOptions)

\* lines 146-156: what async_unload_entry does to hass.data; the platforms
\* that unloaded have removed their entities
Unloaded(e, unload_ok) ==
    /\ UNCHANGED <<services, config_entries>>
    /\ IF ~unload_ok
       THEN UNCHANGED <<hass_data, host_map, entities>>
       ELSE LET popped == DictPop(hass_data, e)
            IN /\ hass_data' = popped
               /\ host_map' = IF DOMAIN popped = {} THEN <<>>
                              ELSE DictPop(host_map, hass_data[e].host_name)
               /\ entities' = {x \in entities : x.entry # e}

\* async_unload_entry, lines 144-156
UnloadEntry ==
    \E e \in DOMAIN hass_data : \E unload_ok \in BOOLEAN :
        /\ HassHandled("unload_entry", e, <<>>, <<>>, "", FALSE)
        /\ Unloaded(e, unload_ok)

\* services.py _set_active_state, lines 23-52, once the service is registered
ServiceDone(entry, args, cs, exc, logged) ==
    HassHandled(SERVICE_SET_RUN_STATE, entry, args, cs, exc, logged)

SetRunStateService ==
    /\ SERVICE_SET_RUN_STATE \in services
    /\ \E zm_id \in SeqRange(HostNames) \cup {"invalid.host"},
          state_name \in {"Away", "Home"}, res \in BoolResults :
          LET args == <<zm_id, state_name>>
          IN /\ UNCHANGED svars
             /\ IF zm_id \notin DOMAIN host_map
                THEN ServiceDone(0, args, <<>>, "", TRUE)
                ELSE IF host_map[zm_id] \notin DOMAIN hass_data
                THEN ServiceDone(host_map[zm_id], args, <<>>, "KeyError", FALSE)
                ELSE LET entry_id == host_map[zm_id]
                         c == ClientCall(hass_data[entry_id].client,
                                         "set_active_state", 0, state_name, 0, res)
                     IN IF res \in ErrorKinds /\ res \notin SetActiveStateCaught
                        THEN ServiceDone(entry_id, args, <<c>>, res, FALSE)
                        ELSE ServiceDone(entry_id, args, <<c>>, "", res # "ok")

\* the servers have no monitors or the full list
InitHass == InitWith(OneReading) /\ Len(zm_monitors) = 0

NextHass ==
    \/ SetupEntry({0, MaxMonitors}, ZmVersions)
    \/ UnloadEntry
    \/ SetRunStateService

SpecHass == InitHass /\ [][NextHass]_vars

-----------------------------------------------------------------------------
(* Config flows, reconfiguration and reload *)

\* the hosts a flow is given
FlowHosts == {HostNames[1], HostNames[2]}

\* what login can answer to a flow: also an error of no known class
FlowLoginResults == LoginResults \cup {"RuntimeError"}

\* (a validation that does not look at the flag login returns)
ValidateConnectionIgnoringFalse(login) ==
    IF login = "LoginError" THEN Some("invalid_auth")
    ELSE IF login \in {"RequestException", "ZoneminderError"}
    THEN Some("cannot_connect")
    ELSE IF login \notin {"ok", "false"} THEN Some("unknown")
    ELSE None

\* _async_validate_connection, config_flow.py lines 176-207: the error key,
\* or None
ValidateConnection(login) ==
    IF login = "LoginError" THEN Some("invalid_auth")
    ELSE IF login \in {"RequestException", "ZoneminderError"}
    THEN Some("cannot_connect")
    ELSE IF login \notin {"ok", "false"} THEN Some("unknown")
    ELSE IF login = "false" THEN Some("invalid_auth")
    ELSE None

\* the validation logs the exceptions it catches
ValidationLogged(login) == login \notin {"ok", "false"}

\* _abort_if_unique_id_configured looks at the unique ids of the entries
UniqueIds == {config_entries[e].unique_id : e \in DOMAIN config_entries}

\* the id of the entry async_create_entry makes
FreeEntryIds == EntryIds \ DOMAIN config_entries
NewEntryId == CHOOSE e \in FreeEntryIds : \A f \in FreeEntryIds : e <= f

\* a flow step ended with result; flows touch the config entries only
FlowDone(name, entry, args, cs, result, logged) ==
    /\ last_op' = [name |-> name, entry |-> entry, monitor |-> 0,
                   args |-> args, calls |-> cs, raised |-> "",
                   logged |-> logged, refresh |-> FALSE, result |-> result]
    /\ UNCHANGED cvars
    /\ UNCHANGED <<hass_data, host_map, services, entities>>

\* async_step_user (lines 95-125) and async_step_import (lines 127-149) with
\* the data of a host: they differ in what they do with a validation error
CreateFlow(name, source, on_error) ==
    \E host \in FlowHosts, login \in FlowLoginResults :
        LET c_login == ClientCall(0, "login", 0, host, 0, login)
            error == ValidateConnection(login)
        IN IF host \in UniqueIds
           THEN /\ FlowDone(name, 0, <<host>>, <<>>,
                            <<"abort", "already_configured">>, FALSE)
                /\ UNCHANGED config_entries
           ELSE IF ~IsNone(error)
           THEN /\ FlowDone(name, 0, <<host>>, <<c_login>>,
                            <<on_error, Val(error)>>, ValidationLogged(login))
                /\ UNCHANGED config_entries
           ELSE /\ FreeEntryIds # {}
                /\ FlowDone(name, NewEntryId, <<host>>, <<c_login>>,
                            <<"create_entry", host>>, FALSE)
                /\ config_entries' =
                      (NewEntryId :> ConfigEntry(host, host, source))
                         @@ config_entries

UserFlow == CreateFlow("user_flow", "user", "form")

ImportFlow == CreateFlow("import_flow", "import", "abort")

\* async_step_reconfigure, lines 151-174: the new data replaces the entry's,
\* the unique id stays, and the entry is scheduled for a reload
ReconfigureFlow ==
    \E e \in DOMAIN config_entries, host \in FlowHosts,
       login \in FlowLoginResults :
        LET c_login == ClientCall(0, "login", 0, host, 0, login)
            error == ValidateConnection(login)
        IN IF ~IsNone(error)
           THEN /\ FlowDone("reconfigure_flow", e, <<host>>, <<c_login>>,
                            <<"form", Val(error)>>, ValidationLogged(login))
                /\ UNCHANGED config_entries
           ELSE /\ FlowDone("reconfigure_flow", e, <<host>>, <<c_login>>,
                            <<"abort", "reconfigure_successful">>, FALSE)
                /\ config_entries' = [config_entries EXCEPT ![e].host = host]

\* _async_options_updated, lines 139-141, and the reload a reconfiguration
\* schedules: the entry is unloaded; when that succeeded it is set up again,
\* which is the next SetupEntry of the entry
ReloadEntry ==
    \E e \in DOMAIN hass_data : \E unload_ok \in BOOLEAN :
        /\ HassHandled("reload_entry", e, <<>>, <<>>, "", FALSE)
        /\ Unloaded(e, unload_ok)

\* no entry is configured; the flows create them
InitFlows ==
    /\ InitCoordinator(OneReading)
    /\ Len(zm_monitors) = 0
    /\ config_entries = <<>>
    /\ NothingLoaded

NextFlows ==
    \/ UserFlow
    \/ ImportFlow
    \/ ReconfigureFlow
    \/ ReloadEntry
    \/ SetupEntry({1}, {<<1, 38, 0>>})
    \/ UnloadEntry

SpecFlows == InitFlows /\ [][NextFlows]_vars

-----------------------------------------------------------------------------
(* One server from the first refresh of its setup on *)

\* The coordinator of CoordinatorEntry is constructed by async_setup_entry
\* after login and get_monitors (line 104).  The setup then awaits the first
\* refresh (line 105), and only after it stores the entry data and forwards
\* the platforms (lines 107-121).  The base class schedules refreshes once
\* entities listen, so later cycles start after the setup.

\* line 105: async_config_entry_first_refresh runs the first cycle
FirstRefresh ==
    /\ CoordinatorEntry \notin DOMAIN hass_data
    /\ raised = "none"
    /\ StartCycle

\* a timer tick or a refresh request of an entity
ScheduledRefresh ==
    /\ CoordinatorEntry \in DOMAIN hass_data
    /\ StartCycle

\* lines 107-121 once the first refresh has succeeded (a failed one leaves
\* the setup as ConfigEntryNotReady): the entry data is stored, and the
\* platforms add their entities, the sensor platform registering its pairs
\* first
FinishSetup(versions, optionsets) ==
    /\ CoordinatorEntry \notin DOMAIN hass_data
    /\ pc = "idle"
    /\ raised = "ok"
    /\ \E version \in versions, options \in optionsets :
          /\ Loaded(CoordinatorEntry, MonitorIds(zm_monitors), version, options)
          /\ event_queries' = Registered(event_queries, SensorQueries(options))
          /\ last_op' = [name |-> "setup_entry", entry |-> CoordinatorEntry,
                         monitor |-> 0, args |-> <<>>,
                         calls |-> <<ClientCall(CoordinatorEntry, "first_refresh",
                                                0, "", 0, "ok"),
                                     ClientCall(CoordinatorEntry,
                                                "forward_entry_setups",
                                                0, "", 0, "ok")>>,
                         raised |-> "", logged |-> FALSE, refresh |-> FALSE,
                         result |-> <<>>]
    /\ UNCHANGED <<zm_monitors, data, last_update_success, pc, l_monitors,
                   event_counts, it, l_run, calls, fault, raised, prior,
                   run_state_objs>>

\* (a sensor that shows zero events for a pair the snapshot lacks)
EventNativeValueZero(d, monitor_id, query) ==
    IF ~IsNone(d) /\ monitor_id \in DOMAIN Val(d).monitors
    THEN DictGet(Val(d).monitors[monitor_id].events, query, Some(0))
    ELSE None

\* ZMSensorEvents.native_value of the sensor of a monitor and a pair, read
\* from the coordinator data d
EventNativeValue(d, monitor_id, query) ==
    IF ~IsNone(d) /\ monitor_id \in DOMAIN Val(d).monitors
    THEN DictGet(Val(d).monitors[monitor_id].events, query, None)
    ELSE None

\* options of the entry: the first conditions of SENSOR_KEYS without archived
\* events, and the first condition with them
ServerOptions ==
    {Options({SENSOR_KEYS[i] : i \in 1..k}, FALSE) : k \in 1..MaxPairs}
    \cup {Options({SENSOR_KEYS[1]}, TRUE)}

InitServer == InitWith(OneReading)

NextServer ==
    \/ FirstRefresh
    \/ FinishSetup({<<1, 38, 0>>}, ServerOptions)
    \/ ScheduledRefresh
    \/ UpdateAllMonitors(OneReading)
    \/ GetEventCounts(SomeCounts(zm_monitors))
    \/ EventCountsDone
    \/ AssembleMonitor
    \/ GetRunStates(OneRunStates)
    \/ ReadIsAvailable({TRUE})

SpecServer == InitServer /\ [][NextServer]_vars

\* a pre-1.37 monitor and a 1.37+ monitor whose fields match no classic mode
WriteReadings ==
    OneReading \cup
    {Reading(Some("Modect"), Some(FALSE), TRUE,
             Some("Always"), Some("Always"), Some("None"))}

\* one monitor, whose entities the setup adds
InitWrites == InitWith(WriteReadings) /\ Len(zm_monitors) = 1

NextWrites ==
    \/ FirstRefresh
    \/ FinishSetup(ZmVersions, {DefaultOptions})
    \/ ScheduledRefresh
    \/ UpdateAllMonitors(WriteReadings)
    \/ GetEventCounts(OneCounts)
    \/ EventCountsDone
    \/ AssembleMonitor
    \/ GetRunStates(OneRunStates)
    \/ ReadIsAvailable({TRUE})
    \/ SwitchTurnOn
    \/ SwitchTurnOff
    \/ ForceAlarmTurnOn
    \/ ForceAlarmTurnOff
    \/ SelectFunction
    \/ SelectCapturing
    \/ SelectAnalysing
    \/ SelectRecording
    \/ SelectRunState
    \/ PerformPtz
    \/ PerformPtzPreset
    \/ SetRunStateService

SpecWrites == InitWrites /\ [][NextWrites]_vars

-----------------------------------------------------------------------------
(* Properties *)

CallsOf(op) == SelectSeq(calls, LAMBDA c : c.op = op)

CycleCompletes == pc # "idle" /\ pc' = "idle"

\* the data a cycle at its last step has assembled, server_available aside
Assembled(d) ==
    /\ d.monitors = l_monitors
    /\ d.run_state = l_run.run_state
    /\ d.available_run_states = l_run.available_run_states

\* C1: a cycle that fails leaves the published snapshot exactly as it was
\* before the cycle and sets last_update_success to false.
FailedCycleKeepsSnapshot ==
    [][(CycleCompletes /\ raised' # "ok")
          => (data' = data /\ last_update_success' = FALSE)]_vars

\* a cycle failed at the run-state fetch, after the monitors were refreshed
\* to values that differ from the ones published by an earlier cycle
FailedCycleWitness ==
    /\ pc = "idle"
    /\ fault = Some([call |-> "get_run_states", kind |-> "RequestException"])
    /\ ~IsNone(data)
    /\ last_update_success = FALSE
    /\ \E i \in 1..Len(zm_monitors) :
          /\ zm_monitors[i].id \in DOMAIN Val(data).monitors
          /\ zm_monitors[i].function # Val(data).monitors[zm_monitors[i].id].function

\* C2: whichever remote call of the cycle raises, and whichever of the three
\* error kinds it raises, the cycle ends as UpdateFailed with
\* last_update_success false; the raw error does not leave the coordinator.
RemoteErrorsBecomeUpdateFailed ==
    (/\ pc = "idle"
     /\ ~IsNone(fault)
     /\ Val(fault).call \in CallNames
     /\ Val(fault).kind \in {"ZoneminderError", "RequestException", "KeyError"})
    => (raised = "UpdateFailed" /\ last_update_success = FALSE)

\* the server-availability read raised a KeyError
RemoteErrorWitness ==
    /\ pc = "idle"
    /\ fault = Some([call |-> "is_available", kind |-> "KeyError"])
    /\ raised = "UpdateFailed"

\* C3: after every completed cycle last_update_success is the outcome of that
\* cycle, whatever it was before, and a successful cycle publishes what it
\* assembled.
FlagFollowsLastCycle ==
    [][CycleCompletes
          => /\ last_update_success' = (raised' = "ok")
             /\ raised' = "ok" => (~IsNone(data') /\ Assembled(Val(data')))]_vars

\* a successful cycle that started from the failed state
RecoveryWitness ==
    /\ pc = "idle"
    /\ prior = FALSE
    /\ raised = "ok"
    /\ last_update_success = TRUE
    /\ ~IsNone(data)

\* C6: a cycle that is past its pre-fetch loop has issued exactly one
\* get_event_counts call per pair of the registration set, K calls for K
\* pairs, whatever the number of monitors.
OneEventCountCallPerPair ==
    pc \in {"assemble", "is_available"}
    => LET ec == CallsOf("get_event_counts")
       IN /\ Len(ec) = it.used
          /\ \A i, j \in 1..Len(ec) : ec[i].query = ec[j].query => i = j
          /\ {ec[i].query : i \in 1..Len(ec)} \subseteq event_queries
          /\ Cardinality(event_queries) = it.used
                => {ec[i].query : i \in 1..Len(ec)} = event_queries

\* two pairs registered, the full monitor list, two calls
OneEventCountCallPerPairWitness ==
    /\ pc = "is_available"
    /\ Len(zm_monitors) = MaxMonitors
    /\ Cardinality(event_queries) = 2
    /\ Len(CallsOf("get_event_counts")) = 2

\* C7: every cycle issues exactly one update_all_monitors call, and passes it
\* the whole monitor list.
OneBulkCallPerCycle ==
    (pc \notin {"idle", "update_all_monitors"} \/ (pc = "idle" /\ raised # "none"))
    => LET bulk == CallsOf("update_all_monitors")
       IN /\ Len(bulk) = 1
          /\ bulk[1].monitors = MonitorIds(zm_monitors)

\* a completed cycle of a server without monitors
OneBulkCallWitness ==
    /\ pc = "idle"
    /\ raised = "ok"
    /\ Len(zm_monitors) = 0
    /\ Len(CallsOf("update_all_monitors")) = 1

\* C8: when get_event_counts returned none for a pair in a cycle that
\* succeeds, every monitor's count for that pair in the published snapshot is
\* None, and its count for a pair that got a mapping is a number.
NoneCountsStayNone ==
    [][(CycleCompletes /\ raised' = "ok")
          => \A q \in DOMAIN event_counts :
               \A m \in DOMAIN Val(data').monitors :
                  LET ev == Val(data').monitors[m].events
                  IN /\ q \in DOMAIN ev
                     /\ IsNone(event_counts[q]) <=> ev[q] = None
                     /\ ~IsNone(event_counts[q])
                           => ev[q] \in {Some(n) : n \in 0..MaxMonitors}]_vars

\* a published snapshot of two monitors where one pair is None for both and
\* the other pair holds a positive count
NoneCountsWitness ==
    /\ pc = "idle"
    /\ raised = "ok"
    /\ ~IsNone(data)
    /\ Cardinality(DOMAIN Val(data).monitors) = 2
    /\ \E q1, q2 \in Pairs :
          /\ q1 # q2
          /\ \A m \in DOMAIN Val(data).monitors :
                /\ DOMAIN Val(data).monitors[m].events = {q1, q2}
                /\ Val(data).monitors[m].events[q1] = None
          /\ \A m \in DOMAIN Val(data).monitors :
                Val(data).monitors[m].events[q2] = Some(m)

\* C9: in every published snapshot available_run_states holds the names the
\* run-state fetch returned, in ascending order, and run_state is the name of
\* the (first) state flagged active, or None when no state is flagged.
IsAscending(names) ==
    \A i, j \in 1..Len(names) : i < j => ~StrLess(names[j], names[i])
Occurrences(x, s) == Cardinality({i \in 1..Len(s) : s[i] = x})
RunStatesSortedAndActive ==
    ~IsNone(data)
    => LET d == Val(data)
           objs == run_state_objs
           names == [i \in 1..Len(objs) |-> objs[i].name]
       IN /\ IsAscending(d.available_run_states)
          /\ Len(d.available_run_states) = Len(names)
          /\ \A n \in RunStateNames :
                Occurrences(n, d.available_run_states) = Occurrences(n, names)
          /\ (\A i \in 1..Len(objs) : ~objs[i].active) => d.run_state = None
          /\ (\E i \in 1..Len(objs) : objs[i].active)
                => \E i \in 1..Len(objs) :
                      /\ objs[i].active
                      /\ \A j \in 1..(i - 1) : ~objs[j].active
                      /\ d.run_state = Some(objs[i].name)

\* the server answered [("Running", active), ("Home", inactive)]
RunStatesWitness ==
    /\ ~IsNone(data)
    /\ run_state_objs = <<RunState("Running", TRUE), RunState("Home", FALSE)>>
    /\ Val(data).run_state = Some("Running")
    /\ Val(data).available_run_states = <<"Home", "Running">>

\* C10: the monitor status sensor shows the classic mode derived from the
\* three sub-mode fields when they are all present, the composed string
\* capturing/analysing/recording when no classic mode matches them, and the
\* classic function field only when a sub-mode field is absent.
StatusSensorDerivesFunction ==
    ~IsNone(data)
    => \A m \in DOMAIN Val(data).monitors :
          LET md == Val(data).monitors[m]
          IN IF ~IsNone(md.capturing) /\ ~IsNone(md.analysing) /\ ~IsNone(md.recording)
             THEN LET c == Val(md.capturing)
                      a == Val(md.analysing)
                      r == Val(md.recording)
                  IN StatusNativeValue(m) =
                        (IF ~IsNone(DeriveFunction(c, a, r))
                         THEN DeriveFunction(c, a, r)
                         ELSE Some(c \o "/" \o a \o "/" \o r))
             ELSE StatusNativeValue(m) = md.function

\* the fixed table: the (capturing, analysing, recording) triple of a classic
\* mode
ClassicTriple(f) ==
    CASE f = "None" -> <<"None", "None", "None">>
      [] f = "Monitor" -> <<"Always", "None", "None">>
      [] f = "Modect" -> <<"Always", "Always", "OnMotion">>
      [] f = "Record" -> <<"Always", "None", "Always">>
      [] f = "Mocord" -> <<"Always", "Always", "Always">>
      [] f = "Nodect" -> <<"Always", "None", "OnMotion">>

HasAllFields(md) ==
    ~IsNone(md.capturing) /\ ~IsNone(md.analysing) /\ ~IsNone(md.recording)

FieldsOf(md) == <<Val(md.capturing), Val(md.analysing), Val(md.recording)>>

FunctionSelectShowsDerived ==
    \A m \in 1..MaxMonitors :
        LET cur == FunctionCurrentOption(m)
            opts == SeqRange(FunctionOptions(m))
        IN /\ (IsNone(data) \/ m \notin DOMAIN Val(data).monitors) => cur = None
           /\ (~IsNone(data) /\ m \in DOMAIN Val(data).monitors)
                 => LET md == Val(data).monitors[m]
                    IN IF HasAllFields(md)
                       THEN IF \E f \in SeqRange(FUNCTION_OPTIONS) :
                                  ClassicTriple(f) = FieldsOf(md)
                            THEN /\ ~IsNone(cur)
                                 /\ Val(cur) \in SeqRange(FUNCTION_OPTIONS)
                                 /\ ClassicTriple(Val(cur)) = FieldsOf(md)
                            ELSE cur = Some("Custom")
                       ELSE cur = md.function
           /\ ("Custom" \in opts) <=> (cur = Some("Custom"))
           /\ cur = None \/ Val(cur) \in opts

\* capturing and analysing without recording has no classic mode: the select
\* shows "Custom" although the classic field says Modect, and offers it
FunctionSelectWitness ==
    /\ ~IsNone(data)
    /\ 1 \in DOMAIN Val(data).monitors
    /\ Val(data).monitors[1].function = Some("Modect")
    /\ HasAllFields(Val(data).monitors[1])
    /\ FieldsOf(Val(data).monitors[1]) = <<"Always", "Always", "None">>
    /\ FunctionCurrentOption(1) = Some("Custom")
    /\ FunctionOptions(1) = FUNCTION_OPTIONS \o <<"Custom">>

\* C13: while the most recent cycle is a failed one no entity of the
\* coordinator is available; the failed cycle leaves the snapshot behind the
\* entities as it was; and an entity becomes available only in the step in
\* which a cycle completes successfully.
FailedCycleMakesEntitiesUnavailable ==
    [][/\ ~last_update_success' => AvailableEntities' = {}
       /\ (CycleCompletes /\ raised' # "ok")
             => (AvailableEntities' = {} /\ data' = data)
       /\ ~(AvailableEntities' \subseteq AvailableEntities)
             => (CycleCompletes /\ raised' = "ok")]_vars

\* after a good cycle of an available monitor on an available server, the
\* next cycle failed: the values are still there, no entity is available
FailedCycleUnavailableWitness ==
    /\ pc = "idle"
    /\ raised = "UpdateFailed"
    /\ prior = TRUE
    /\ ~IsNone(data)
    /\ Val(data).server_available
    /\ 1 \in DOMAIN Val(data).monitors
    /\ Val(data).monitors[1].is_available
    /\ AvailableEntities = {}

\* C14: after a successful cycle the monitor status sensor is available and
\* shows the monitor's function, also when the monitor's own availability flag
\* is false.
StatusSensorStaysAvailable ==
    (last_update_success /\ ~IsNone(data))
    => \A m \in DOMAIN Val(data).monitors :
          /\ StatusAvailable(m)
          /\ StatusNativeValue(m) = Val(data).monitors[m].function

\* the handlers of selects, switches and of the service, which write
WritingHandlers ==
    {"switch_turn_on", "switch_turn_off", "force_alarm_turn_on",
     "force_alarm_turn_off", "select_function", "select_capturing",
     "select_analysing", "select_recording", "select_run_state",
     SERVICE_SET_RUN_STATE}

\* the handlers that write to one monitor
MonitorWritingHandlers ==
    {"switch_turn_on", "switch_turn_off", "force_alarm_turn_on",
     "force_alarm_turn_off", "select_function", "select_capturing",
     "select_analysing", "select_recording"}

\* a step in which a handler ran
HandlerRan(names) == last_op' # last_op /\ last_op'.name \in names

\* C15: a select, a switch or the set_run_state service that issued its write
\* and returned has requested a refresh of the coordinator.
EveryWriteRequestsRefresh ==
    (/\ last_op.name \in WritingHandlers
     /\ Len(last_op.calls) > 0
     /\ last_op.raised = "")
    => last_op.refresh

\* C16: when the write of a per-monitor switch or select raises a protocol or
\* transport error, the handler returns without raising, the error is logged,
\* the refresh is requested, and nothing of the coordinator or of a running
\* cycle has changed.
FailedMonitorWriteIsCaught ==
    [][(/\ HandlerRan(MonitorWritingHandlers)
        /\ Len(last_op'.calls) = 1
        /\ last_op'.calls[1].result \in {"ZoneminderError", "RequestException"})
       => (/\ last_op'.raised = ""
           /\ last_op'.logged
           /\ last_op'.refresh
           /\ UNCHANGED cvars)]_vars

\* the force-alarm switch was turned off while a cycle was in flight, and the
\* write timed out
FailedMonitorWriteWitness ==
    /\ pc = "assemble"
    /\ last_op.name = "force_alarm_turn_off"
    /\ last_op.calls[1].result = "RequestException"
    /\ last_op.raised = ""
    /\ last_op.logged
    /\ last_op.refresh

\* C17: a PTZ move or preset calls the client exactly once; a ZoneminderError
\* and a false result both leave the handler as HomeAssistantError; preset 0
\* goes to goto_home and every other preset to goto_preset.
PtzFailuresSurface ==
    last_op.name \in {"ptz", "ptz_preset"}
    => /\ Len(last_op.calls) = 1
       /\ LET c == last_op.calls[1]
          IN /\ c.result \in {"ZoneminderError", "false"}
                   => last_op.raised = "HomeAssistantError"
             /\ c.result = "ok" => last_op.raised = ""
             /\ last_op.name = "ptz" => c.method = "move_monitor"
             /\ last_op.name = "ptz_preset"
                   => c.method = (IF c.preset = 0 THEN "goto_home" ELSE "goto_preset")

\* preset 0 was requested and goto_home returned false
PtzFailureWitness ==
    /\ last_op.name = "ptz_preset"
    /\ last_op.calls = <<ClientCall(0, "goto_home", 1, "", 0, "false")>>
    /\ last_op.raised = "HomeAssistantError"

\* C18: when set_active_state raises a protocol error or a timeout under the
\* run-state select, that error leaves the select operation, and the published
\* snapshot and last_update_success are as before.
RunStateSelectErrorPropagates ==
    [][(/\ HandlerRan({"select_run_state"})
        /\ last_op'.calls[1].result \in {"ZoneminderError", "RequestException"})
       => (/\ last_op'.raised = last_op'.calls[1].result
           /\ data' = data
           /\ last_update_success' = last_update_success)]_vars

\* the select was used after a good cycle and the write timed out
RunStateSelectErrorWitness ==
    /\ last_op.name = "select_run_state"
    /\ last_op.calls[1].result = "RequestException"
    /\ last_op.raised = "RequestException"
    /\ ~IsNone(data)
    /\ last_update_success

\* the loaded entries whose host is h
LoadedWithHost(h) == {e \in DOMAIN hass_data : hass_data[e].host_name = h}

\* C19: set_run_state with id H and name S calls set_active_state(S) once, on
\* the client of the loaded entry whose host is H, and calls no other client;
\* without such an entry it calls nothing and logs the invalid host; an error
\* or a false result of the client is logged; nothing is raised to the
\* caller of the service.
ServiceTargetsItsHost ==
    [][HandlerRan({SERVICE_SET_RUN_STATE})
       => LET H == last_op'.args[1]
              S == last_op'.args[2]
              cs == last_op'.calls
          IN /\ last_op'.raised = ""
             /\ LoadedWithHost(H) = {}
                   => (cs = <<>> /\ last_op'.logged)
             /\ LoadedWithHost(H) # {}
                   => /\ Len(cs) = 1
                      /\ LoadedWithHost(H) = {cs[1].entry}
                      /\ cs[1].entry = hass_data[cs[1].entry].client
                      /\ cs[1].method = "set_active_state"
                      /\ cs[1].arg = S
                      /\ cs[1].result # "ok" => last_op'.logged]_vars

\* with two servers loaded the service was called for the second one, whose
\* client timed out
ServiceTargetsItsHostWitness ==
    /\ DOMAIN hass_data = {1, 2}
    /\ last_op.name = SERVICE_SET_RUN_STATE
    /\ last_op.args = <<EntryHost(2), "Home">>
    /\ last_op.calls =
          <<ClientCall(2, "set_active_state", 0, "Home", 0, "RequestException")>>
    /\ last_op.logged
    /\ last_op.raised = ""

RegistrationIsUnion ==
    [][/\ event_queries \subseteq event_queries'
       /\ event_queries' # event_queries
             => \A base \in {event_queries, event_queries'} :
                   \A a, b \in SUBSET Pairs :
                      /\ Registered(Registered(base, a), a) = Registered(base, a)
                      /\ Registered(Registered(base, a), b)
                            = Registered(Registered(base, b), a)
                      /\ a \subseteq Registered(base, a)]_vars

\* both pairs are registered, one of them after the cycle that published the
\* snapshot had fetched its counts
RegistrationIsUnionWitness ==
    /\ pc = "idle"
    /\ raised = "ok"
    /\ event_queries = Pairs
    /\ Cardinality(event_queries) = 2
    /\ Len(CallsOf("get_event_counts")) = 1

\* the position of a remote call in the order of the cycle
CallRank(op) ==
    CASE op = "update_all_monitors" -> 1
      [] op = "get_event_counts" -> 2
      [] op = "get_run_states" -> 3
      [] op = "is_available" -> 4

\* C25: the remote calls of a cycle are issued in the order bulk status,
\* event counts (one per pair), run states, availability read, each of the
\* three others once; a call is issued only after every call before it has
\* returned, and the call that failed is the last call of its cycle.
CallsAreSequential ==
    /\ Len(calls) > 0 => calls[1].op = "update_all_monitors"
    /\ \A i, j \in 1..Len(calls) :
          i < j => /\ CallRank(calls[i].op) <= CallRank(calls[j].op)
                   /\ calls[i].op = calls[j].op => calls[i].op = "get_event_counts"
    /\ pc = "update_all_monitors" => calls = <<>>
    /\ pc = "get_event_counts" => CallRank(calls[Len(calls)].op) <= 2
    /\ pc = "assemble" => CallRank(calls[Len(calls)].op) <= 2
    /\ pc = "is_available" => calls[Len(calls)].op = "get_run_states"
    /\ (pc = "idle" /\ raised = "ok") => calls[Len(calls)].op = "is_available"
    /\ (pc = "idle" /\ ~IsNone(fault) /\ Val(fault).call \in CallNames)
          => calls[Len(calls)].op = Val(fault).call

\* two pairs are registered and the first event-count call failed: the cycle
\* ended after the bulk call and that one call
CallsAreSequentialWitness ==
    /\ pc = "idle"
    /\ ~IsNone(fault)
    /\ Val(fault).call = "get_event_counts"
    /\ Cardinality(event_queries) = 2
    /\ Len(calls) = 2
    /\ calls[1].op = "update_all_monitors"
    /\ calls[2].op = "get_event_counts"

\* C26: a registration that interleaves with a running cycle does not make
\* the cycle fail, and in the snapshot the cycle publishes every monitor has
\* exactly the pairs as keys for which the cycle issued an event-count call.
RegistrationRaceIsBenign ==
    /\ ~IsNone(fault) => Val(fault).call # "iterate"
    /\ (pc = "idle" /\ raised = "ok")
          => LET ec == CallsOf("get_event_counts")
                 fetched == {ec[i].query : i \in 1..Len(ec)}
             IN \A m \in DOMAIN Val(data).monitors :
                   DOMAIN Val(data).monitors[m].events = fetched

\* C30: the snapshot a successful cycle publishes has exactly one entry per
\* configured monitor id, and for every pair the cycle fetched a monitor's
\* count is the value under str(id) in the returned mapping, 0 when the
\* mapping has no such key, and None exactly when the call returned none.
CountsAreLookedUpById ==
    [][(CycleCompletes /\ raised' = "ok")
          => /\ DOMAIN Val(data').monitors = MonitorIdSet
             /\ Cardinality(DOMAIN Val(data').monitors) = Len(zm_monitors)
             /\ \A m \in DOMAIN Val(data').monitors :
                   \A q \in DOMAIN event_counts :
                      LET ev == Val(data').monitors[m].events
                          answer == event_counts[q]
                      IN /\ q \in DOMAIN ev
                         /\ (ev[q] = None) <=> IsNone(answer)
                         /\ (~IsNone(answer) /\ PyStr(m) \in DOMAIN Val(answer))
                               => ev[q] = Some(Val(answer)[PyStr(m)])
                         /\ (~IsNone(answer) /\ PyStr(m) \notin DOMAIN Val(answer))
                               => ev[q] = Some(0)]_vars

\* two monitors and a mapping that holds monitor 1 only, with zero events:
\* monitor 1 reads the stored 0 and monitor 2 the default 0
CountsLookupWitness ==
    /\ pc = "idle"
    /\ raised = "ok"
    /\ ~IsNone(data)
    /\ DOMAIN Val(data).monitors = {1, 2}
    /\ \E q \in DOMAIN Val(data).monitors[1].events :
          /\ Val(data).monitors[1].events[q] = Some(0)
          /\ Val(data).monitors[2].events[q] = Some(0)
          /\ \E q2 \in DOMAIN Val(data).monitors[2].events :
                Val(data).monitors[2].events[q2] = Some(2)

\* the entities of an entry
EntitiesOf(e) == {x \in entities : x.entry = e}

KindsOf(e, domain, m) ==
    {x.kind : x \in {y \in EntitiesOf(e) : y.domain = domain /\ y.monitor = m}}

\* C23: a loaded pre-1.37 server has for each monitor the function switch and
\* the force-alarm switch and no capturing, analysing or recording select; a
\* 1.37+ server has for each monitor the force-alarm switch only and exactly
\* the three selects capturing, analysing and recording; every server has one
\* run-state select, so a 1.37+ server with n monitors has 3n + 1 selects
\* and n switches.
ControlEntitiesFollowVersion ==
    \A e \in DOMAIN hass_data :
        LET ms == SeqRange(hass_data[e].monitors)
            selects == {x \in EntitiesOf(e) : x.domain = "select"}
            switches == {x \in EntitiesOf(e) : x.domain = "switch"}
        IN /\ KindsOf(e, "select", 0) = {"run_state"}
           /\ IF IsZm137OrLater(hass_data[e].zm_version)
              THEN /\ \A m \in ms :
                         /\ KindsOf(e, "switch", m) = {"force_alarm"}
                         /\ KindsOf(e, "select", m) =
                               {"capturing", "analysing", "recording"}
                   /\ Cardinality(selects) = 3 * Cardinality(ms) + 1
                   /\ Cardinality(switches) = Cardinality(ms)
              ELSE \A m \in ms :
                      /\ KindsOf(e, "switch", m) = {"force_alarm", "function"}
                      /\ KindsOf(e, "select", m)
                            \cap {"capturing", "analysing", "recording"} = {}

\* the steps of the three flows that take data
FlowNames == {"user_flow", "import_flow", "reconfigure_flow"}

\* C24: a flow creates or updates a config entry only when the validation
\* succeeded (login returned true).  A LoginError and a false login give
\* invalid_auth, a transport or protocol error cannot_connect, any other
\* exception unknown; the user and reconfigure flows show the form with that
\* error, the import flow aborts with it.  A host whose unique id is
\* configured aborts the user and import flows with already_configured before
\* login is called.  In every other case the entries are as before.
FlowsValidateBeforeCreating ==
    [][HandlerRan(FlowNames)
       => LET f == last_op'
              host == f.args[1]
              login == IF f.calls = <<>> THEN "" ELSE f.calls[1].result
              error ==
                  CASE login \in {"LoginError", "false"} -> "invalid_auth"
                    [] login \in {"RequestException", "ZoneminderError"}
                          -> "cannot_connect"
                    [] login \in {"KeyError", "RuntimeError"} -> "unknown"
                    [] OTHER -> ""
              duplicate == f.name # "reconfigure_flow" /\ host \in UniqueIds
          IN /\ config_entries' # config_entries
                   => (login = "ok" /\ ~duplicate)
             /\ duplicate
                   => (/\ f.result = <<"abort", "already_configured">>
                       /\ f.calls = <<>>)
             /\ (~duplicate /\ error # "")
                   => (/\ f.result = <<(IF f.name = "import_flow"
                                        THEN "abort" ELSE "form"), error>>
                       /\ config_entries' = config_entries)
             /\ (~duplicate /\ login = "ok")
                   => IF f.name = "reconfigure_flow"
                      THEN /\ DOMAIN config_entries' = DOMAIN config_entries
                           /\ config_entries'[f.entry].host = host
                           /\ config_entries'[f.entry].unique_id
                                 = config_entries[f.entry].unique_id
                      ELSE /\ f.entry \notin DOMAIN config_entries
                           /\ f.entry \in DOMAIN config_entries'
                           /\ config_entries'[f.entry].host = host
                           /\ config_entries'[f.entry].unique_id = host
                           /\ f.result = <<"create_entry", host>>]_vars

\* one server is configured and the import of a second host was refused by
\* a login that returned false
FlowsValidateWitness ==
    /\ DOMAIN config_entries = {1}
    /\ last_op.name = "import_flow"
    /\ last_op.args = <<HostNames[2]>>
    /\ last_op.calls[1].result = "false"
    /\ last_op.result = <<"abort", "invalid_auth">>

\* C27: the host map holds H -> E exactly when entry E is loaded with host H.
HostMapMatchesLoaded ==
    \A h \in SeqRange(HostNames), e \in EntryIds :
        (h \in DOMAIN host_map /\ host_map[h] = e)
        <=> (e \in DOMAIN hass_data /\ hass_data[e].host_name = h)

\* the event sensors of the coordinator's entry
EventSensors(ents) ==
    {x \in ents : x.entry = CoordinatorEntry /\ x.domain = "sensor"
                  /\ x.kind = "events"}

\* C28: entities exist only once a snapshot is published; when the setup
\* ends every event sensor reads None; up to the next successful cycle the
\* reading stays what it was; a successful cycle with the sensors in place
\* fetched the pair of every sensor, and the sensor then reads the count of
\* its monitor in that answer.
FirstSnapshotHasNoCounts ==
    [][/\ entities' # {} => ~IsNone(data')
       /\ HandlerRan({"setup_entry"})
             => /\ EventSensors(entities) = {}
                /\ \A x \in EventSensors(entities') :
                      EventNativeValue(data', x.monitor, x.key) = None
       /\ ~(CycleCompletes /\ raised' = "ok")
             => \A x \in EventSensors(entities) :
                   EventNativeValue(data', x.monitor, x.key)
                      = EventNativeValue(data, x.monitor, x.key)
       /\ (CycleCompletes /\ raised' = "ok")
             => \A x \in EventSensors(entities) :
                   /\ x.key \in DOMAIN event_counts
                   /\ EventNativeValue(data', x.monitor, x.key)
                         = MonitorEvent(event_counts[x.key], x.monitor)]_vars

\* after the setup a cycle has succeeded: the sensor of monitor 2 reads the
\* two events fetched for one pair and None for a pair whose fetch returned
\* none
FirstSnapshotWitness ==
    /\ pc = "idle"
    /\ raised = "ok"
    /\ last_op.name = "setup_entry"
    /\ \E x, y \in EventSensors(entities) :
          /\ x.monitor = 2
          /\ y.monitor = 2
          /\ EventNativeValue(data, 2, x.key) = Some(2)
          /\ EventNativeValue(data, 2, y.key) = None
          /\ y.key \in DOMAIN Val(data).monitors[2].events

WriteHandlers ==
    {"switch_turn_on", "switch_turn_off", "force_alarm_turn_on",
     "force_alarm_turn_off", "select_function", "select_capturing",
     "select_analysing", "select_recording", "select_run_state", "ptz",
     "ptz_preset", SERVICE_SET_RUN_STATE}

\* what the two switches and the capturing select of every monitor display
DisplayedStates ==
    [m \in MonitorIdSet |-> [switch |-> SwitchIsOn(m),
                             force_alarm |-> ForceAlarmIsOn(m),
                             capturing |-> CapturingCurrentOption(m)]]

\* C29: a write handler leaves the published snapshot and
\* last_update_success as they were; the snapshot changes only at the step
\* that completes a successful cycle, to the data that cycle assembled; and
\* what the switches and the capturing select display changes at no other
\* step.
WritesLeaveSnapshot ==
    [][/\ HandlerRan(WriteHandlers)
             => /\ data' = data
                /\ last_update_success' = last_update_success
       /\ data' # data
             => /\ CycleCompletes
                /\ raised' = "ok"
                /\ Assembled(Val(data'))
       /\ DisplayedStates' # DisplayedStates
             => (CycleCompletes /\ raised' = "ok")]_vars

\* the function switch of a monitor was turned off, the server accepted
\* the write, and the switch still displays on while the requested cycle
\* has refreshed the Monitor object but not yet published
WritesLeaveSnapshotWitness ==
    /\ last_op.name = "switch_turn_off"
    /\ last_op.calls[1].result = "ok"
    /\ last_op.refresh
    /\ SwitchIsOn(last_op.monitor) = Some(TRUE)
    /\ pc = "assemble"
    /\ last_update_success

====
